---- MODULE Spec2Model ----
(***************************************************************************)
(* A model of ts_translator.py: one run of process_ts_file over a Qt TS    *)
(* catalog, with the response cache of translate_text, the selection and   *)
(* skip gates, the confidence gate and the operator's decision loop.       *)
(*                                                                         *)
(* Text is a sequence of one-character strings, so that strip, startswith, *)
(* endswith, lower, split and float are computed as Python computes them.  *)
(* Python's None and a missing XML element are the one-element sequences   *)
(* None and NoElem, which no text equals.                                  *)
(***************************************************************************)
EXTENDS Integers, Sequences, FiniteSets, TLC

VARIABLES
    args,          \* the command line: flags and skip-context-prefixes
    orig,          \* the catalog as it was when the run started
    tree,          \* the parsed catalog held in memory (ET tree)
    file,          \* the catalog file on disk
    cache,         \* the in-memory response cache (dict key -> result)
    store,         \* the pickle file of the cache
    pc,            \* where process_ts_file stands
    ci, mi,        \* current context and message (1-based; document order)
    translated_text, explanation, confidence, edited_translation,
    unfinished_count, empty_count, processed_count, non_english_source_count,
    report,        \* the (processed, total) pair printed at the end, or <<>>
    log,           \* what the run did so far: calls, prompts, mutations, writes
    temp_files     \* the temporary files of edit_translation that exist on disk

vars == <<temp_files, args, orig, tree, file, cache, store, pc, ci, mi,
          translated_text, explanation, confidence, edited_translation,
          unfinished_count, empty_count, processed_count,
          non_english_source_count, report, log>>

----------------------------------------------------------------------------
(* Bounds of the model *)

\* the largest number of messages of a catalog
MaxMessages == 2

----------------------------------------------------------------------------
(* Text *)

None == <<"<None>">>
NoElem == <<"<NoElem>">>

IsText(s) == s # None /\ s # NoElem

\* Python truthiness of a str-or-None value
Truthy(s) == s # None /\ s # <<>>

IsSpace(c) == c \in {" ", "\n", "\t"}

RECURSIVE LStrip(_)
LStrip(s) == IF s # <<>> /\ IsSpace(Head(s)) THEN LStrip(Tail(s)) ELSE s

RECURSIVE RStrip(_)
RStrip(s) ==
    IF s # <<>> /\ IsSpace(s[Len(s)]) THEN RStrip(SubSeq(s, 1, Len(s) - 1)) ELSE s

\* str.strip()
Strip(s) == RStrip(LStrip(s))

\* str.rstrip('%')
RECURSIVE RStripPercent(_)
RStripPercent(s) ==
    IF s # <<>> /\ s[Len(s)] = "%" THEN RStripPercent(SubSeq(s, 1, Len(s) - 1)) ELSE s

\* str.startswith(p)
StartsWith(s, p) == Len(p) <= Len(s) /\ SubSeq(s, 1, Len(p)) = p

\* str.endswith(p)
EndsWith(s, p) == Len(p) <= Len(s) /\ SubSeq(s, Len(s) - Len(p) + 1, Len(s)) = p

UpperLetters == <<"A","B","C","D","E","F","G","H","I","J","K","L","M",
                  "N","O","P","Q","R","S","T","U","V","W","X","Y","Z">>
LowerLetters == <<"a","b","c","d","e","f","g","h","i","j","k","l","m",
                  "n","o","p","q","r","s","t","u","v","w","x","y","z">>

LowerChar(c) ==
    IF \E i \in 1..Len(UpperLetters) : UpperLetters[i] = c
    THEN LowerLetters[CHOOSE i \in 1..Len(UpperLetters) : UpperLetters[i] = c]
    ELSE c

\* str.lower()
Lower(s) == [i \in 1..Len(s) |-> LowerChar(s[i])]

\* str.split(','): the segments between the commas, empty ones included
RECURSIVE SplitComma(_)
SplitComma(s) ==
    IF \E i \in 1..Len(s) : s[i] = ","
    THEN LET k == CHOOSE i \in 1..Len(s) :
                      s[i] = "," /\ \A j \in 1..(i - 1) : s[j] # ","
         IN  <<SubSeq(s, 1, k - 1)>> \o SplitComma(SubSeq(s, k + 1, Len(s)))
    ELSE <<s>>

Digits == <<"0","1","2","3","4","5","6","7","8","9">>
IsDigit(c) == \E i \in 1..10 : Digits[i] = c
DigitVal(c) == (CHOOSE i \in 1..10 : Digits[i] = c) - 1

RECURSIVE DecimalValue(_)
DecimalValue(s) ==
    IF s = <<>> THEN 0
    ELSE 10 * DecimalValue(SubSeq(s, 1, Len(s) - 1)) + DigitVal(s[Len(s)])

\* float(s) on the texts of this model: a run of decimal digits is its value,
\* anything else (the empty string, a word) raises ValueError
FloatParses(s) == s # <<>> /\ \A i \in 1..Len(s) : IsDigit(s[i])
FloatValue(s) == DecimalValue(s)

\* confidence.strip().rstrip('%').strip()
ConfidenceNumberText(c) == Strip(RStripPercent(Strip(c)))

----------------------------------------------------------------------------
(* translate_text: the cache key, the parse of the response, the cache *)

\* the literal that opens the key of a source-to-English call
SOURCE_TO_ENGLISH == <<"s","o","u","r","c","e","_","t","o","_","e","n","g","l","i","s","h">>

CHAT_COMPLETIONS == <<"/","c","h","a","t","/","c","o","m","p","l","e","t","i","o","n","s">>

\* the URL is completed before the key is built
NormalizeUrl(openai_url) ==
    IF EndsWith(openai_url, CHAT_COMPLETIONS) THEN openai_url
    ELSE IF EndsWith(openai_url, <<"/">>)
         THEN openai_url \o Tail(CHAT_COMPLETIONS)
         ELSE openai_url \o CHAT_COMPLETIONS

\* the key of translate_text: eight components in both directions
CacheKey(to_english, source_text, context_name, comment, extracomment, target_language, additional_prompt, openai_model, openai_url) ==
    IF to_english
    THEN <<SOURCE_TO_ENGLISH, source_text, context_name, comment, extracomment,
           additional_prompt, openai_model, NormalizeUrl(openai_url)>>
    ELSE <<source_text, context_name, comment, extracomment, target_language,
           additional_prompt, openai_model, NormalizeUrl(openai_url)>>

NoneResult == <<None, None, None>>

\* The content of a response: with the TRANSLATION/EXPLANATION/
\* CONFIDENCE_PERCENTAGE/END_RESPONSE markers (parts are the three captured
\* groups) or without them (parts are the pieces between blank lines).
NonEmptyText(s) == s # <<>>

ParseContent(content) ==
    IF content.marked
    THEN <<Strip(content.parts[1]), Strip(content.parts[2]), Strip(content.parts[3])>>
    ELSE LET stripped == [i \in 1..Len(content.parts) |-> Strip(content.parts[i])]
             paragraphs == SelectSeq(stripped, NonEmptyText)
         IN  << IF Len(paragraphs) > 0 THEN paragraphs[1] ELSE <<>>,
                IF Len(paragraphs) > 1 THEN paragraphs[2] ELSE <<>>,
                IF Len(paragraphs) > 2 THEN paragraphs[3] ELSE <<>> >>

\* the insertion that forgets the other keys
CachePutAlone(c, key, result) ==
    [k \in {key} |-> result]

\* dict insertion cache[key] = result
CachePut(c, key, result) ==
    [k \in DOMAIN c \cup {key} |-> IF k = key THEN result ELSE c[k]]

\* save_cache that leaves the file as it is
SaveCacheNever(c, s, disk_ok) == s

\* lines 46-52: the pickle file holds the whole cache c after the call, or is
\* left as it was (s) when the write raises; the exception is printed
save_cache(c, s, disk_ok) == IF disk_ok THEN c ELSE s

\* translate_text that keeps the (None, None, None) of a failed call
TranslateTextCachingFailure(c, key, resp) ==
    IF key \in DOMAIN c
    THEN [result |-> c[key], cache |-> c, invoked |-> FALSE, saved |-> FALSE]
    ELSE IF ~resp.ok
         THEN [result |-> NoneResult, cache |-> CachePut(c, key, NoneResult),
               invoked |-> TRUE, saved |-> FALSE]
         ELSE LET r == ParseContent(resp.content)
              IN  [result |-> r, cache |-> CachePut(c, key, r),
                   invoked |-> TRUE, saved |-> TRUE]

\* translate_text that returns the answer without keeping it (line 244 left out)
TranslateTextWithoutInsert(c, key, resp) ==
    IF key \in DOMAIN c
    THEN [result |-> c[key], cache |-> c, invoked |-> FALSE, saved |-> FALSE]
    ELSE IF ~resp.ok
         THEN [result |-> NoneResult, cache |-> c, invoked |-> TRUE, saved |-> FALSE]
         ELSE [result |-> ParseContent(resp.content), cache |-> c,
               invoked |-> TRUE, saved |-> TRUE]

\* translate_text on cache c with the service answering resp when it is asked:
\* the returned triple, the cache afterwards, whether the service was invoked
\* and whether the cache was saved
TranslateText(c, key, resp) ==
    IF key \in DOMAIN c
    THEN [result |-> c[key], cache |-> c, invoked |-> FALSE, saved |-> FALSE]
    ELSE IF ~resp.ok
         THEN [result |-> NoneResult, cache |-> c, invoked |-> TRUE, saved |-> FALSE]
         ELSE LET r == ParseContent(resp.content)
              IN  [result |-> r, cache |-> CachePut(c, key, r),
                   invoked |-> TRUE, saved |-> TRUE]

----------------------------------------------------------------------------
(* Selection and skip policy *)

\* prefixes = [p.strip() for p in skip_context_prefixes.split(',') if p.strip()]
Prefixes(skip_context_prefixes) ==
    IF skip_context_prefixes = <<>> THEN {}
    ELSE LET parts == SplitComma(skip_context_prefixes)
         IN  {Strip(parts[i]) : i \in 1..Len(parts)} \ {<<>>}

\* the gate with == in place of startswith
ContextSkippedOnEqualName(context, skip_context_prefixes) ==
    \/ context.name = NoElem
    \/ /\ context.name # None
       /\ context.name \in Prefixes(skip_context_prefixes)

\* the context is passed over: no name element, or a name with a skip prefix
ContextSkipped(context, skip_context_prefixes) ==
    \/ context.name = NoElem
    \/ /\ context.name # None
       /\ \E prefix \in Prefixes(skip_context_prefixes) :
              StartsWith(context.name, prefix)

\* the name used for the context: None becomes the empty string
ContextName(context) == IF context.name = None THEN <<>> ELSE context.name

UI_EXT == <<".", "u", "i">>

\* the gate with all(...) in place of any(...)
HasOnlyUiLocations(message) ==
    /\ message.locations # <<>>
    /\ \A i \in 1..Len(message.locations) :
          EndsWith(Lower(message.locations[i]), UI_EXT)

\* any(loc.attrib.get('filename', '').lower().endswith('.ui') ...)
HasUiLocation(message) ==
    \E i \in 1..Len(message.locations) :
        EndsWith(Lower(message.locations[i]), UI_EXT)

UiSkipped(message, skip_ui) == skip_ui /\ HasUiLocation(message)

IsUnfinished(message) == message.type = "unfinished"

IsEmptyTranslation(message) ==
    message.text = None \/ Strip(message.text) = <<>>

\* the selection that takes empty elements whatever the flag
ShouldTranslateIgnoringFlag(message, translate_empty) ==
    IsUnfinished(message) \/ IsEmptyTranslation(message)

should_translate_element(message, translate_empty) ==
    IsUnfinished(message) \/ (IsEmptyTranslation(message) /\ translate_empty)

\* the message reaches the counting and the translation
Selected(context, message, a) ==
    /\ ~ContextSkipped(context, a.skip_context_prefixes)
    /\ ~UiSkipped(message, a.skip_ui)
    /\ message.has_translation
    /\ should_translate_element(message, a.translate_empty)

\* text of an optional element, "" when it or its text is missing
TextOrEmpty(s) == IF IsText(s) THEN s ELSE <<>>

----------------------------------------------------------------------------
(* Confidence and placeholder policy *)

ELLIPSIS_DOTS == <<".", ".", ".">>
\* the one-glyph ellipsis (U+2026), a single character
ELLIPSIS_GLYPH == <<"U+2026">>

\* the placeholder test without strip()
IsPlaceholderUntrimmed(source_text) == source_text \in {ELLIPSIS_DOTS, ELLIPSIS_GLYPH}

IsPlaceholder(source_text) == Strip(source_text) \in {ELLIPSIS_DOTS, ELLIPSIS_GLYPH}

\* lines 471-474: the result the run goes on with
ApplyPlaceholder(source_text, result) ==
    IF IsPlaceholder(source_text) THEN <<<<>>, result[1], <<"0">>>> ELSE result

LOW_CONFIDENCE == 10

\* float(...) raises ValueError on this confidence
ConfidenceRaises(c) == Truthy(c) /\ ~FloatParses(ConfidenceNumberText(c))

\* the gate with <= 10
AutoSkipUpToTen(c) ==
    /\ Truthy(c)
    /\ FloatParses(ConfidenceNumberText(c))
    /\ FloatValue(ConfidenceNumberText(c)) <= LOW_CONFIDENCE

\* line 486: confidence and float(...) < 10
AutoSkip(c) ==
    /\ Truthy(c)
    /\ FloatParses(ConfidenceNumberText(c))
    /\ FloatValue(ConfidenceNumberText(c)) < LOW_CONFIDENCE

\* the detection test with >= 0
NonEnglishFromZero(c) ==
    /\ Truthy(c)
    /\ FloatParses(ConfidenceNumberText(c))
    /\ FloatValue(ConfidenceNumberText(c)) >= 0

\* line 435: confidence and float(...) > 0
NonEnglish(c) ==
    /\ Truthy(c)
    /\ FloatParses(ConfidenceNumberText(c))
    /\ FloatValue(ConfidenceNumberText(c)) > 0

REFUSAL == <<"I","'","m"," ","s","o","r","r","y",","," ","b","u","t"," ","i","t"," ","s","e","e","m","s">>

\* line 490 raises AttributeError: explanation is None and has no startswith
PromptRaises(t, e) == ~Truthy(t) /\ e = None

\* line 490: the prompt without "yes"
IsRefusal(t, e) == ~Truthy(t) /\ e # None /\ StartsWith(e, REFUSAL)

\* the choices with "yes" whatever the candidate
ValidChoicesAlwaysYes(t, e) == {"yes", "no", "edit", "quit"}

ValidChoices(t, e) ==
    IF IsRefusal(t, e) THEN {"no", "edit", "quit"}
    ELSE {"yes", "no", "edit", "quit"}

----------------------------------------------------------------------------
(* The inputs of a run *)

Message(locations, has_translation, type, text, source, comment, extracomment) ==
    [locations |-> locations, has_translation |-> has_translation, type |-> type,
     text |-> text, source |-> source, comment |-> comment,
     extracomment |-> extracomment]

L_CPP == <<"m", ".", "c">>
L_UI == <<"w", ".", "u", "i">>
N_MAIN == <<"M">>
N_QT == <<"Q", "t", "X">>
T_DRAFT == <<"d">>
T_OLD == <<"o">>
S_HI == <<"H", "i">>
S_DOTS == <<".", ".", ".", " ">>

\* an entry: the name of its context and its message
Entry(name, message) == [name |-> name, message |-> message]

E_PLAIN == Entry(N_MAIN, Message(<<L_CPP>>, TRUE, "unfinished", T_DRAFT, S_HI, NoElem, NoElem))
E_PREFIX == Entry(N_QT, Message(<<L_CPP>>, TRUE, "unfinished", T_DRAFT, S_HI, NoElem, NoElem))
E_UI == Entry(N_MAIN, Message(<<L_CPP, L_UI>>, TRUE, "unfinished", None, S_HI, NoElem, NoElem))
E_DOTS == Entry(N_MAIN, Message(<<>>, TRUE, "unfinished", None, S_DOTS, NoElem, NoElem))
E_GLYPH == Entry(N_MAIN, Message(<<>>, TRUE, "unfinished", None, ELLIPSIS_GLYPH, NoElem, NoElem))
E_FINISHED == Entry(N_MAIN, Message(<<L_CPP>>, TRUE, "absent", T_OLD, S_HI, NoElem, NoElem))
E_EMPTY == Entry(N_MAIN, Message(<<L_CPP>>, TRUE, "absent", None, S_HI, NoElem, NoElem))
E_S2E == Entry(SOURCE_TO_ENGLISH,
               Message(<<>>, TRUE, "unfinished", None, SOURCE_TO_ENGLISH,
                       SOURCE_TO_ENGLISH, SOURCE_TO_ENGLISH))
E_NONAME == Entry(NoElem, Message(<<>>, TRUE, "unfinished", None, S_HI, NoElem, NoElem))
E_NOTRANSLATION == Entry(N_MAIN, Message(<<>>, FALSE, "absent", None, S_HI, NoElem, NoElem))
E_NOSOURCE == Entry(N_MAIN, Message(<<>>, TRUE, "unfinished", None, NoElem, NoElem, NoElem))

LANG_RU == <<"r", "u">>

\* The bytes of a catalog file that are not part of the element tree: the
\* lines before the root element, the way an element without content is
\* written, and the text after the end tag of the root.
\* line 57: the two lines write_ts_file puts before the serialized root
TS_HEADER == <<"<?xml version=\"1.0\" encoding=\"utf-8\"?>", "<!DOCTYPE TS>">>

\* line 55: ElementTree writes an element without content as <tag /> and
\* nothing after the end tag of the root
WRITTEN_LAYOUT == [header |-> TS_HEADER, empty_element |-> "<tag />", tail |-> <<>>]

\* a file as Qt's lupdate leaves it: same header, <tag/> and
\* <tag></tag> for elements without content, a newline after </TS>
LUPDATE_LAYOUT == [header |-> TS_HEADER, empty_element |-> "<tag></tag>", tail |-> <<"\n">>]

\* The catalogs of the model are the runs of at most MaxMessages consecutive
\* entries of these catalogs, under the language attribute of the catalog
\* ("" when the attribute is missing).
ReferenceCatalogs ==
    { [language |-> LANG_RU, layout |-> LUPDATE_LAYOUT,
       entries |-> <<E_PLAIN, E_PLAIN, E_UI, E_PREFIX, E_DOTS, E_DOTS, E_GLYPH,
                     E_EMPTY, E_FINISHED, E_NOSOURCE, E_NONAME, E_NOTRANSLATION,
                     E_PLAIN>>],
      [language |-> SOURCE_TO_ENGLISH, layout |-> WRITTEN_LAYOUT,
       entries |-> <<E_S2E, E_PLAIN>>],
      [language |-> <<>>, layout |-> LUPDATE_LAYOUT, entries |-> <<E_PLAIN>>] }

Runs(es) ==
    {SubSeq(es, i, i + n - 1) : <<i, n>> \in
        {<<j, k>> \in (1..Len(es)) \X (1..MaxMessages) : j + k - 1 <= Len(es)}}

\* consecutive entries of one context name form one context
RECURSIVE Contexts(_)
Contexts(es) ==
    IF es = <<>> THEN <<>>
    ELSE LET rest == Contexts(Tail(es))
             e == Head(es)
         IN  IF rest # <<>> /\ rest[1].name = e.name
             THEN <<[name |-> e.name, messages |-> <<e.message>> \o rest[1].messages]>>
                  \o Tail(rest)
             ELSE <<[name |-> e.name, messages |-> <<e.message>>]>> \o rest

Catalogs ==
    UNION {{[parsable |-> TRUE, language |-> c.language, contexts |-> Contexts(es),
             layout |-> c.layout] :
               es \in Runs(c.entries)} : c \in ReferenceCatalogs}
    \cup {[parsable |-> FALSE, language |-> <<>>, contexts |-> <<>>,
           layout |-> LUPDATE_LAYOUT]}

P_QT == <<" ", "Q", "t", ",", " ">>

Flags(cache_only, skip_ui, translate_empty, non_english, prefixes) ==
    [cache_only |-> cache_only, skip_ui |-> skip_ui,
     translate_empty |-> translate_empty,
     translate_non_english_source |-> non_english,
     skip_context_prefixes |-> prefixes,
     openai_url |-> <<"u", "/">>, openai_model |-> <<"g">>,
     additional_prompt |-> <<>>]

CommandLines ==
    { Flags(FALSE, FALSE, FALSE, FALSE, <<>>),
      Flags(TRUE, FALSE, FALSE, FALSE, <<>>),
      Flags(FALSE, TRUE, TRUE, FALSE, P_QT),
      Flags(FALSE, TRUE, FALSE, TRUE, P_QT),
      Flags(TRUE, TRUE, TRUE, TRUE, P_QT) }

T_NEW == <<"T">>
X_WHY == <<"e">>

Marked(t, e, c) == [marked |-> TRUE, parts |-> <<t, e, c>>]
Plain(ps) == [marked |-> FALSE, parts |-> ps]

\* what the service may answer: no usable answer (transport error, non-2xx,
\* unreadable body), or a content
Contents ==
    { Marked(T_NEW, X_WHY, <<"8", "5", "%">>),
      Marked(T_NEW, X_WHY, <<"1", "0">>),
      Marked(T_NEW, X_WHY, <<"9">>),
      Marked(T_NEW, X_WHY, <<"0">>),
      Marked(T_NEW, X_WHY, <<"h", "i", "g", "h">>),
      Marked(<<>>, REFUSAL, <<"5", "0">>),
      Plain(<<T_NEW>>) }

Responses ==
    {[ok |-> FALSE, content |-> Plain(<<>>)]}
    \cup {[ok |-> TRUE, content |-> c] : c \in Contents}

\* what the operator may type at the first prompt (lower-cased)
Choices == {"yes", "no", "edit", "quit", "x"}

\* line 503 and the like: the long and the short form of a choice
Canonical(choice) ==
    CASE choice \in {"yes", "y"} -> "yes"
      [] choice \in {"no", "n"} -> "no"
      [] choice \in {"edit", "e"} -> "edit"
      [] choice \in {"quit", "q"} -> "quit"
      [] OTHER -> choice

\* what the editor may leave in the temporary file
T_EDITED == <<"Z", " ">>

----------------------------------------------------------------------------
(* The run *)

NotParsed == [parsable |-> FALSE, language |-> <<>>, contexts |-> <<>>]

EmptyCache == [k \in {} |-> NoneResult]

Init ==
    /\ args \in CommandLines
    /\ orig \in Catalogs
    /\ file = orig
    /\ tree = NotParsed
    /\ cache = EmptyCache
    /\ store = EmptyCache
    /\ pc = "start"
    /\ ci = 1
    /\ mi = 1
    /\ translated_text = None
    /\ explanation = None
    /\ confidence = None
    /\ edited_translation = None
    /\ unfinished_count = 0
    /\ empty_count = 0
    /\ processed_count = 0
    /\ non_english_source_count = 0
    /\ report = <<>>
    /\ log = <<>>
    /\ temp_files = {}

locals == <<translated_text, explanation, confidence, edited_translation>>
counters == <<unfinished_count, empty_count, processed_count,
              non_english_source_count>>

Context == tree.contexts[ci]
CurrentMessage == tree.contexts[ci].messages[mi]

source_text == TextOrEmpty(CurrentMessage.source)
context_name == ContextName(Context)
comment_text == TextOrEmpty(CurrentMessage.comment)
extracomment_text == TextOrEmpty(CurrentMessage.extracomment)

\* An event of the log: what happened ("count", "call", "hit", "prompt",
\* "mutate", "write") and at which message; a call or hit has the direction,
\* the key, whether the service failed, the triple translate_text returned
\* and the triple the run went on with; a mutation has the text it set.
Event(kind) ==
    [ev |-> kind, ci |-> ci, mi |-> mi, dir |-> "-", key |-> <<>>,
     failed |-> FALSE, result |-> <<>>, used |-> <<>>]

\* the event of one translate_text call: the service was asked, or the cache answered
CallEvent(out, dir, key, used) ==
    [ev |-> IF out.invoked THEN "call" ELSE "hit", ci |-> ci, mi |-> mi,
     dir |-> dir, key |-> key, failed |-> out.invoked /\ ~out.saved,
     result |-> out.result, used |-> used]

MutateEvent(text) == [Event("mutate") EXCEPT !.used = text]

\* line 303: ET.parse keeps the element tree of the file and nothing of the
\* bytes around and between the elements
ParseTs(f) == [parsable |-> f.parsable, language |-> f.language, contexts |-> f.contexts]

\* the start that goes on without a target language
StartWithoutLanguageCheck ==
    /\ pc = "start"
    /\ IF ~file.parsable
       THEN pc' = "exit1" /\ tree' = tree
       ELSE pc' = "context" /\ tree' = ParseTs(file)
    /\ UNCHANGED <<temp_files, args, orig, file, cache, store, ci, mi, translated_text,
                   explanation, confidence, edited_translation, unfinished_count,
                   empty_count, processed_count, non_english_source_count,
                   report, log>>

\* lines 302-309: parse the file and read the target language; a file that
\* cannot be parsed or has no language ends the process with status 1
Start ==
    /\ pc = "start"
    /\ IF ~file.parsable \/ file.language = <<>>
       THEN /\ pc' = "exit1"
            /\ tree' = IF file.parsable THEN ParseTs(file) ELSE tree
       ELSE /\ pc' = "context"
            /\ tree' = ParseTs(file)
    /\ UNCHANGED <<temp_files, args, orig, file, cache, store, ci, mi, locals, counters,
                   report, log>>

\* lines 324-340: a context without a name element or with a skip prefix is passed over
SkipContext ==
    /\ pc = "context"
    /\ ci <= Len(tree.contexts)
    /\ ContextSkipped(Context, args.skip_context_prefixes)
    /\ ci' = ci + 1
    /\ UNCHANGED <<temp_files, args, orig, tree, file, cache, store, pc, mi, locals,
                   counters, report, log>>

\* line 346: the messages of the context are gone through
EnterContext ==
    /\ pc = "context"
    /\ ci <= Len(tree.contexts)
    /\ ~ContextSkipped(Context, args.skip_context_prefixes)
    /\ pc' = "message"
    /\ mi' = 1
    /\ UNCHANGED <<temp_files, args, orig, tree, file, cache, store, ci, locals, counters,
                   report, log>>

\* the end of a context that goes through the same context again
LeaveContextWithoutAdvance ==
    /\ pc = "message"
    /\ mi > Len(Context.messages)
    /\ pc' = "context"
    /\ ci' = ci
    /\ mi' = 1
    /\ UNCHANGED <<temp_files, args, orig, tree, file, cache, store, locals, counters,
                   report, log>>

\* line 346: no message is left in the context
LeaveContext ==
    /\ pc = "message"
    /\ mi > Len(Context.messages)
    /\ pc' = "context"
    /\ ci' = ci + 1
    /\ mi' = 1
    /\ UNCHANGED <<temp_files, args, orig, tree, file, cache, store, locals, counters,
                   report, log>>

\* lines 347-366: a message in a UI file, without a translation element or
\* that needs no translation is passed over
SkipMessage ==
    /\ pc = "message"
    /\ mi <= Len(Context.messages)
    /\ \/ UiSkipped(CurrentMessage, args.skip_ui)
       \/ ~CurrentMessage.has_translation
       \/ ~should_translate_element(CurrentMessage, args.translate_empty)
    /\ mi' = mi + 1
    /\ UNCHANGED <<temp_files, args, orig, tree, file, cache, store, pc, ci, locals,
                   counters, report, log>>

\* lines 366-423: the message is counted; without a source element it is
\* passed over, else it goes to the detection or to the translation
SelectMessage ==
    /\ pc = "message"
    /\ mi <= Len(Context.messages)
    /\ ~UiSkipped(CurrentMessage, args.skip_ui)
    /\ CurrentMessage.has_translation
    /\ should_translate_element(CurrentMessage, args.translate_empty)
    /\ IF IsUnfinished(CurrentMessage)
       THEN /\ unfinished_count' = unfinished_count + 1
            /\ empty_count' = empty_count
       ELSE /\ empty_count' = empty_count + 1
            /\ unfinished_count' = unfinished_count
    /\ IF CurrentMessage.source = NoElem
       THEN /\ mi' = mi + 1
            /\ pc' = pc
       ELSE /\ mi' = mi
            /\ pc' = IF args.translate_non_english_source /\ Strip(source_text) # <<>>
                     THEN "detect" ELSE "translate"
    /\ log' = Append(log, Event("count"))
    /\ UNCHANGED <<temp_files, args, orig, tree, file, cache, store, ci, locals,
                   processed_count, non_english_source_count, report>>

\* lines 423-445: the source-to-English call and what its confidence decides
Detect ==
    /\ pc = "detect"
    /\ LET key == CacheKey(TRUE, source_text, context_name, comment_text,
                           extracomment_text, None, args.additional_prompt,
                           args.openai_model, args.openai_url)
       IN  \E resp \in Responses :
             LET out == TranslateText(cache, key, resp)
             IN  /\ cache' = out.cache
                 /\ store' = IF out.saved THEN save_cache(out.cache, store, TRUE) ELSE store
                 /\ log' = Append(log, CallEvent(out, "english", key, out.result))
                 /\ explanation' = out.result[2]
                 /\ confidence' = out.result[3]
                 /\ IF ConfidenceRaises(out.result[3])
                    THEN /\ pc' = "exit1"
                         /\ UNCHANGED <<mi, non_english_source_count>>
                    ELSE IF NonEnglish(out.result[3])
                    THEN /\ non_english_source_count' = non_english_source_count + 1
                         /\ mi' = mi + 1
                         /\ pc' = "message"
                    ELSE /\ pc' = "translate"
                         /\ UNCHANGED <<mi, non_english_source_count>>
    /\ UNCHANGED <<temp_files, args, orig, tree, file, ci, translated_text,
                   edited_translation, unfinished_count, empty_count,
                   processed_count, report>>

\* lines 464-501 and 528-529: the normal call, the placeholder rule, the
\* confidence gate; the message is then counted (cache-only), passed over,
\* or presented to the operator
Translate ==
    /\ pc = "translate"
    /\ LET key == CacheKey(FALSE, source_text, context_name, comment_text,
                           extracomment_text, tree.language,
                           args.additional_prompt, args.openai_model,
                           args.openai_url)
       IN  \E resp \in Responses :
             LET out == TranslateText(cache, key, resp)
                 r == ApplyPlaceholder(source_text, out.result)
                 called == Append(log, CallEvent(out, "normal", key, r))
             IN  /\ cache' = out.cache
                 /\ store' = IF out.saved THEN save_cache(out.cache, store, TRUE) ELSE store
                 /\ translated_text' = r[1]
                 /\ explanation' = r[2]
                 /\ confidence' = r[3]
                 /\ IF args.cache_only
                    THEN /\ processed_count' = processed_count + 1
                         /\ mi' = mi + 1
                         /\ pc' = "message"
                         /\ log' = called
                    ELSE IF ConfidenceRaises(r[3])
                    THEN /\ pc' = "exit1"
                         /\ log' = called
                         /\ UNCHANGED <<mi, processed_count>>
                    ELSE IF AutoSkip(r[3])
                    THEN /\ mi' = mi + 1
                         /\ pc' = "message"
                         /\ log' = called
                         /\ UNCHANGED processed_count
                    ELSE IF PromptRaises(r[1], r[2])
                    THEN /\ pc' = "exit1"
                         /\ log' = called
                         /\ UNCHANGED <<mi, processed_count>>
                    ELSE /\ pc' = "prompt"
                         /\ log' = Append(called, Event("prompt"))
                         /\ UNCHANGED <<mi, processed_count>>
    /\ UNCHANGED <<temp_files, args, orig, tree, file, ci, edited_translation,
                   unfinished_count, empty_count, non_english_source_count,
                   report>>

\* the acceptance that sets the text and leaves the type attribute
AcceptedKeepingMarker(t, text) ==
    [t EXCEPT !.contexts[ci].messages[mi].text = text]

\* lines 504-506 and 518-520: the text is set and the type attribute removed
Accepted(t, text) ==
    [t EXCEPT !.contexts[ci].messages[mi].text = text,
              !.contexts[ci].messages[mi].type = "absent"]

\* lines 54-57: the file holds the fixed header and the serialized root
WriteTsFile(t) ==
    [parsable |-> t.parsable, language |-> t.language, contexts |-> t.contexts,
     layout |-> WRITTEN_LAYOUT]

\* lines 497-501: an answer that is not a valid choice; the prompt comes again
Invalid ==
    /\ pc = "prompt"
    /\ \E choice \in Choices :
          Canonical(choice) \notin ValidChoices(translated_text, explanation)
    /\ UNCHANGED vars

\* lines 503-508: yes
Accept ==
    /\ pc = "prompt"
    /\ \E choice \in Choices :
          /\ Canonical(choice) \in ValidChoices(translated_text, explanation)
          /\ Canonical(choice) = "yes"
    /\ tree' = Accepted(tree, translated_text)
    /\ processed_count' = processed_count + 1
    /\ log' = Append(log, MutateEvent(translated_text))
    /\ mi' = mi + 1
    /\ pc' = "message"
    /\ UNCHANGED <<temp_files, args, orig, file, cache, store, ci, locals,
                   unfinished_count, empty_count, non_english_source_count,
                   report>>

\* the answer no that removes the type attribute of the entry
SkipClearingMarker ==
    /\ pc = "prompt"
    /\ \E choice \in Choices :
          /\ Canonical(choice) \in ValidChoices(translated_text, explanation)
          /\ Canonical(choice) = "no"
    /\ tree' = [tree EXCEPT !.contexts[ci].messages[mi].type = "absent"]
    /\ mi' = mi + 1
    /\ pc' = "message"
    /\ UNCHANGED <<temp_files, args, orig, file, cache, store, ci, locals, counters,
                   report, log>>

\* lines 509-511: no
Skip ==
    /\ pc = "prompt"
    /\ \E choice \in Choices :
          /\ Canonical(choice) \in ValidChoices(translated_text, explanation)
          /\ Canonical(choice) = "no"
    /\ mi' = mi + 1
    /\ pc' = "message"
    /\ UNCHANGED <<temp_files, args, orig, tree, file, cache, store, ci, locals, counters,
                   report, log>>

\* line 262: the name of the temporary file
TEMP_NAME == "tmp.txt"

\* One run of the external editor on the temporary file: how subprocess.run
\* ends ("ok", "not_started" for an editor that cannot be started, "nonzero"
\* for an exit status that check=True turns into CalledProcessError), the
\* text the editor leaves in the file (None when it leaves the file as it
\* is) and whether that text can be read back as UTF-8.
Editor(run, content, readable) == [run |-> run, content |-> content, readable |-> readable]

Editors ==
    { Editor("ok", T_EDITED, TRUE),
      Editor("ok", None, TRUE),
      Editor("ok", T_EDITED, FALSE),
      Editor("not_started", None, TRUE),
      Editor("nonzero", T_EDITED, TRUE) }

\* edit_translation whose except branch leaves the temporary file (line 275 left out)
EditTranslationLeakingOnFailure(translation, editor, files) ==
    LET created == files \cup {TEMP_NAME}
    IN  IF editor.run # "ok" \/ ~editor.readable
        THEN [result |-> translation, temp_files |-> created]
        ELSE [result |-> Strip(IF editor.content = None THEN translation
                               ELSE editor.content),
              temp_files |-> created \ {TEMP_NAME}]

\* lines 258-276: the temporary file is created with the text (260-262), the
\* editor runs (268), the file is read back and stripped (269-270) and
\* unlinked (271); an exception of the editor or of the reading unlinks the
\* file and gives the text back as it came (273-276). The returned text and
\* the temporary files on disk afterwards.
edit_translation(translation, editor, files) ==
    LET created == files \cup {TEMP_NAME}
    IN  IF editor.run # "ok" \/ ~editor.readable
        THEN [result |-> translation, temp_files |-> created \ {TEMP_NAME}]
        ELSE [result |-> Strip(IF editor.content = None THEN translation
                               ELSE editor.content),
              temp_files |-> created \ {TEMP_NAME}]

\* lines 512-514: edit
Edit ==
    /\ pc = "prompt"
    /\ \E choice \in Choices :
          /\ Canonical(choice) \in ValidChoices(translated_text, explanation)
          /\ Canonical(choice) = "edit"
    /\ \E editor \in Editors :
          LET out == edit_translation(translated_text, editor, temp_files)
          IN  /\ edited_translation' = out.result
              /\ temp_files' = out.temp_files
    /\ pc' = "confirm"
    /\ UNCHANGED <<args, orig, tree, file, cache, store, ci, mi,
                   translated_text, explanation, confidence, counters,
                   report, log>>

\* the confirmation that marks the edited entry as unfinished
ConfirmEditMarkingUnfinished ==
    /\ pc = "confirm"
    /\ tree' = [tree EXCEPT !.contexts[ci].messages[mi].text = edited_translation,
                            !.contexts[ci].messages[mi].type = "unfinished"]
    /\ processed_count' = processed_count + 1
    /\ log' = Append(log, MutateEvent(edited_translation))
    /\ mi' = mi + 1
    /\ pc' = "message"
    /\ UNCHANGED <<temp_files, args, orig, file, cache, store, ci, locals,
                   unfinished_count, empty_count, non_english_source_count,
                   report>>

\* lines 516-522: the edited text is confirmed
ConfirmEdit ==
    /\ pc = "confirm"
    /\ tree' = Accepted(tree, edited_translation)
    /\ processed_count' = processed_count + 1
    /\ log' = Append(log, MutateEvent(edited_translation))
    /\ mi' = mi + 1
    /\ pc' = "message"
    /\ UNCHANGED <<temp_files, args, orig, file, cache, store, ci, locals,
                   unfinished_count, empty_count, non_english_source_count,
                   report>>

\* the refused edit that becomes the candidate of the next prompt
DiscardEditKeepingText ==
    /\ pc = "confirm"
    /\ pc' = "prompt"
    /\ translated_text' = edited_translation
    /\ UNCHANGED <<temp_files, args, orig, tree, file, cache, store, ci, mi, explanation,
                   confidence, edited_translation, counters, report, log>>

\* line 517 false: the edited text is dropped and the prompt comes again
DiscardEdit ==
    /\ pc = "confirm"
    /\ pc' = "prompt"
    /\ UNCHANGED <<temp_files, args, orig, tree, file, cache, store, ci, mi, locals,
                   counters, report, log>>

\* quit that returns without writing the file (line 525 left out)
QuitWithoutWrite ==
    /\ pc = "prompt"
    /\ \E choice \in Choices :
          /\ Canonical(choice) \in ValidChoices(translated_text, explanation)
          /\ Canonical(choice) = "quit"
    /\ report' = <<processed_count, unfinished_count + empty_count>>
    /\ log' = Append(log, Event("write"))
    /\ pc' = "quit"
    /\ UNCHANGED <<temp_files, args, orig, tree, file, cache, store, ci, mi, locals, counters>>

\* lines 523-527: quit writes the file and returns
Quit ==
    /\ pc = "prompt"
    /\ \E choice \in Choices :
          /\ Canonical(choice) \in ValidChoices(translated_text, explanation)
          /\ Canonical(choice) = "quit"
    /\ file' = WriteTsFile(tree)
    /\ report' = <<processed_count, unfinished_count + empty_count>>
    /\ log' = Append(log, Event("write"))
    /\ pc' = "quit"
    /\ UNCHANGED <<temp_files, args, orig, tree, cache, store, ci, mi, locals, counters>>

\* the end of the run that writes the file in cache-only mode too
FinishAlwaysWrites ==
    /\ pc = "context"
    /\ ci > Len(tree.contexts)
    /\ file' = WriteTsFile(tree)
    /\ report' = <<processed_count, unfinished_count + empty_count>>
    /\ log' = Append(log, Event("write"))
    /\ pc' = "done"
    /\ UNCHANGED <<temp_files, args, orig, tree, cache, store, ci, mi, locals, counters>>

\* lines 531-541: after the last context the file is written, unless cache-only
Finish ==
    /\ pc = "context"
    /\ ci > Len(tree.contexts)
    /\ IF args.cache_only
       THEN /\ report' = <<processed_count>>
            /\ UNCHANGED <<file, log>>
       ELSE /\ file' = WriteTsFile(tree)
            /\ report' = <<processed_count, unfinished_count + empty_count>>
            /\ log' = Append(log, Event("write"))
    /\ pc' = "done"
    /\ UNCHANGED <<temp_files, args, orig, tree, cache, store, ci, mi, locals, counters>>

Next ==
    \/ Start
    \/ SkipContext
    \/ EnterContext
    \/ LeaveContext
    \/ SkipMessage
    \/ SelectMessage
    \/ Detect
    \/ Translate
    \/ Invalid
    \/ Accept
    \/ Skip
    \/ Edit
    \/ ConfirmEdit
    \/ DiscardEdit
    \/ Quit
    \/ Finish

Spec == Init /\ [][Next]_vars

----------------------------------------------------------------------------
(* translate_text on its own: a sequence of calls in one process, with a   *)
(* pickle file whose writing may fail                                      *)

\* the largest number of translate_text calls of the sequence
MaxCalls == 3

S_BYE == <<"B">>

\* the arguments the calls differ in: the direction and the source text
CallInputs ==
    { [to_english |-> FALSE, source_text |-> S_HI],
      [to_english |-> TRUE, source_text |-> S_HI],
      [to_english |-> FALSE, source_text |-> S_BYE] }

KeyOf(in) ==
    CacheKey(in.to_english, in.source_text, <<"M">>, <<>>, <<>>,
             IF in.to_english THEN None ELSE LANG_RU,
             args.additional_prompt, args.openai_model, args.openai_url)

\* what the service does when it is asked: a failure of the request, an
\* answer with the markers, an answer without them
CallResponses ==
    { [ok |-> FALSE, content |-> Plain(<<>>)],
      [ok |-> TRUE, content |-> Marked(T_NEW, X_WHY, <<"8", "5", "%">>)],
      [ok |-> TRUE, content |-> Plain(<<T_EDITED>>)] }

\* line 571: the cache load_cache returns, empty or with the entry
\* an earlier process saved
LoadedCaches ==
    { EmptyCache,
      CachePut(EmptyCache,
               CacheKey(FALSE, S_HI, <<"M">>, <<>>, <<>>, LANG_RU, <<>>,
                        <<"g">>, <<"u", "/">>),
               <<<<"O">>, <<>>, <<"9", "0">>>>) }

\* the event of one call: the key, whether the service was asked, what was
\* returned, and how the writing of the pickle file ended
CacheEvent(out, in, key, disk_ok) ==
    [ev |-> IF out.invoked THEN "call" ELSE "hit", dir |-> in.to_english,
     key |-> key, failed |-> out.invoked /\ ~out.saved, result |-> out.result,
     write |-> IF ~out.saved THEN "none" ELSE IF disk_ok THEN "ok" ELSE "failed"]

InitCache ==
    /\ args = Flags(TRUE, FALSE, FALSE, TRUE, <<>>)
    /\ orig = WriteTsFile(NotParsed)
    /\ file = orig
    /\ tree = NotParsed
    /\ cache \in LoadedCaches
    /\ store = cache
    /\ pc = "calls"
    /\ ci = 1
    /\ mi = 1
    /\ translated_text = None
    /\ explanation = None
    /\ confidence = None
    /\ edited_translation = None
    /\ unfinished_count = 0
    /\ empty_count = 0
    /\ processed_count = 0
    /\ non_english_source_count = 0
    /\ report = <<>>
    /\ log = <<>>
    /\ temp_files = {}

\* lines 89-256: one call of translate_text
TranslateTextCall ==
    /\ pc = "calls"
    /\ Len(log) < MaxCalls
    /\ \E in \in CallInputs, resp \in CallResponses, disk_ok \in BOOLEAN :
          LET key == KeyOf(in)
              out == TranslateText(cache, key, resp)
          IN  /\ cache' = out.cache
              /\ store' = IF out.saved THEN save_cache(out.cache, store, disk_ok)
                          ELSE store
              /\ translated_text' = out.result[1]
              /\ explanation' = out.result[2]
              /\ confidence' = out.result[3]
              /\ log' = Append(log, CacheEvent(out, in, key, disk_ok))
    /\ UNCHANGED <<temp_files, args, orig, tree, file, pc, ci, mi,
                   edited_translation, counters, report>>

NextCache == TranslateTextCall

SpecCache == InitCache /\ [][NextCache]_vars

----------------------------------------------------------------------------
(* edit_translation on its own: one call for every text and every editor run *)

\* the longest text handed to edit_translation
MaxEditLen == 4

\* the texts handed to edit_translation: blanks and letters, so that the
\* stripped text and the text as it came differ
EditTexts ==
    UNION {[1..n -> {"T", " "}] : n \in 0..MaxEditLen}

EditEvent(editor) == [ev |-> "edit", editor |-> editor]

InitEdit ==
    /\ args = Flags(FALSE, FALSE, FALSE, FALSE, <<>>)
    /\ orig = WriteTsFile(NotParsed)
    /\ file = orig
    /\ tree = NotParsed
    /\ cache = EmptyCache
    /\ store = EmptyCache
    /\ pc = "edit"
    /\ ci = 1
    /\ mi = 1
    /\ translated_text \in EditTexts
    /\ explanation = <<>>
    /\ confidence = <<>>
    /\ edited_translation = None
    /\ unfinished_count = 0
    /\ empty_count = 0
    /\ processed_count = 0
    /\ non_english_source_count = 0
    /\ report = <<>>
    /\ log = <<>>
    /\ temp_files = {}

\* line 513: edited_translation = edit_translation(translated_text)
EditTranslationCall ==
    /\ pc = "edit"
    /\ \E editor \in Editors :
          LET out == edit_translation(translated_text, editor, temp_files)
          IN  /\ edited_translation' = out.result
              /\ temp_files' = out.temp_files
              /\ log' = <<EditEvent(editor)>>
    /\ pc' = "edited"
    /\ UNCHANGED <<args, orig, tree, file, cache, store, ci, mi,
                   translated_text, explanation, confidence, counters, report>>

NextEdit == EditTranslationCall

SpecEdit == InitEdit /\ [][NextEdit]_vars

----------------------------------------------------------------------------
(* Vocabulary of the properties *)

Positions(t) ==
    UNION {{<<c, m>> : m \in 1..Len(t.contexts[c].messages)} :
              c \in 1..Len(t.contexts)}

MessageAt(t, p) == t.contexts[p[1]].messages[p[2]]
ContextAt(t, p) == t.contexts[p[1]]

\* document order
Before(p, q) == p[1] < q[1] \/ (p[1] = q[1] /\ p[2] < q[2])

At(e) == <<e.ci, e.mi>>
LogIndex == 1..Len(log)
IsCall(e) == e.ev \in {"call", "hit"}
Mutations == {i \in LogIndex : log[i].ev = "mutate"}

Ended == pc \in {"done", "quit", "exit1"}

\* the confidence of a triple read as a number, when it is one
IsNumeric(c) == c # None /\ FloatParses(ConfidenceNumberText(c))
Number(c) == FloatValue(ConfidenceNumberText(c))

----------------------------------------------------------------------------
(* Properties *)

\* C1: when the external call for an entry fails (translate_text returns
\* (None, None, None)), the run does not end there: it never exits because
\* of a service failure.
C1_ServiceFailureNeverEndsRun ==
    ~(pc = "exit1" /\ log # <<>> /\ log[Len(log)].failed)

\* C2: in a run that is not cache-only, whichever way the run ends, every
\* entry that was accepted is in the catalog file with its new text.
C2_AcceptedSurvivesEveryEnd ==
    (Ended /\ ~args.cache_only) =>
        \A i \in Mutations :
            /\ MessageAt(file, At(log[i])).text = log[i].used
            /\ MessageAt(file, At(log[i])).type = "absent"

\* C3 as stated: two calls of translate_text with the same direction and the
\* same key inputs make exactly one invocation of the service.
C3_OneInvocationPerKey ==
    \A i, j \in LogIndex :
        (log[i].ev = "call" /\ log[j].ev = "call"
           /\ log[i].dir = log[j].dir /\ log[i].key = log[j].key)
            => i = j

\* C3 amended: after a call of translate_text that got an answer (from the
\* service or from the cache), every later call with the same direction and
\* key inputs makes no invocation and returns the same triple.
C3_AnsweredCallIsMemoized ==
    \A i, j \in LogIndex :
        (i < j /\ IsCall(log[i]) /\ IsCall(log[j])
           /\ log[i].dir = log[j].dir /\ log[i].key = log[j].key
           /\ ~log[i].failed)
            => (log[j].ev = "hit" /\ log[j].result = log[i].result)

C3_Witness ==
    \E i, j \in LogIndex :
        /\ i < j
        /\ log[i].ev = "call" /\ ~log[i].failed
        /\ log[j].ev = "hit" /\ log[j].key = log[i].key
        /\ log[j].dir = log[i].dir

\* the file holds the input, changed only by the mutations of the log
FileIsInputWithAccepted ==
    /\ file.language = orig.language
    /\ Len(file.contexts) = Len(orig.contexts)
    /\ \A p \in Positions(orig) :
          IF \E i \in Mutations : At(log[i]) = p
          THEN \E i \in Mutations :
                  /\ At(log[i]) = p
                  /\ MessageAt(file, p) =
                        [MessageAt(orig, p) EXCEPT !.text = log[i].used,
                                                   !.type = "absent"]
          ELSE MessageAt(file, p) = MessageAt(orig, p)

\* C4: at quit the file is written at once with exactly the entries accepted
\* so far changed; the entry at the prompt and the later ones keep their
\* input text and flag; after the quit nothing more happens.
C4_QuitWritesAcceptedAndStops ==
    /\ [](pc = "quit" =>
            /\ file = WriteTsFile(tree)
            /\ FileIsInputWithAccepted
            /\ \A i \in Mutations : Before(At(log[i]), <<ci, mi>>)
            /\ \A p \in Positions(orig) :
                  ~Before(p, <<ci, mi>>) => MessageAt(file, p) = MessageAt(orig, p)
            /\ log[Len(log)].ev = "write"
            /\ Cardinality({i \in LogIndex : log[i].ev = "write"}) = 1)
    /\ [][pc = "quit" => UNCHANGED vars]_vars

C4_Witness ==
    /\ pc = "quit"
    /\ Mutations # {}
    /\ \E i \in Mutations : MessageAt(file, At(log[i])) # MessageAt(orig, At(log[i]))
    /\ MessageAt(orig, <<ci, mi>>).type = "unfinished"

\* C5: in an interactive run an entry whose normal-direction result has a
\* numeric confidence below 10 gets no prompt and no mutation, and one with
\* a confidence of 10 or more is presented to the operator.
C5_ConfidenceGate ==
    ~args.cache_only =>
        \A i \in LogIndex :
            (IsCall(log[i]) /\ log[i].dir = "normal" /\ IsNumeric(log[i].used[3]))
            => IF Number(log[i].used[3]) < 10
               THEN /\ \A j \in LogIndex :
                          log[j].ev \in {"prompt", "mutate"} => At(log[j]) # At(log[i])
                    /\ MessageAt(tree, At(log[i])) = MessageAt(orig, At(log[i]))
                    /\ (i = Len(log) => pc \in {"message", "context"})
               ELSE /\ i < Len(log)
                    /\ log[i + 1].ev = "prompt"
                    /\ At(log[i + 1]) = At(log[i])

C5_Witness ==
    /\ ~args.cache_only
    /\ \E i \in LogIndex :
          /\ IsCall(log[i]) /\ log[i].dir = "normal"
          /\ log[i].used[3] = <<"9">>
    /\ pc = "prompt"
    /\ confidence = <<"1", "0">>

\* C6: in a cache-only run there is no prompt, no entry is changed and the
\* catalog file is never written.
C6_CacheOnlyTouchesOnlyCache ==
    args.cache_only =>
        /\ file = orig
        /\ tree \in {NotParsed, ParseTs(orig)}
        /\ pc \notin {"prompt", "confirm", "quit"}
        /\ \A i \in LogIndex : log[i].ev \notin {"prompt", "mutate", "write"}

C6_Witness ==
    /\ args.cache_only
    /\ pc = "done"
    /\ processed_count > 0
    /\ store # EmptyCache

\* C7: the key of a source-to-English call never equals the key of a normal call.
C7_DirectionsNeverCollide ==
    \A i, j \in LogIndex :
        (IsCall(log[i]) /\ IsCall(log[j])
           /\ log[i].dir = "english" /\ log[j].dir = "normal")
            => log[i].key # log[j].key

\* the context's name starts with one of the configured skip prefixes
HasSkipPrefix(context) ==
    /\ IsText(context.name)
    /\ \E prefix \in Prefixes(args.skip_context_prefixes) :
          StartsWith(context.name, prefix)

\* C8: an entry of a context whose name starts with a configured skip prefix
\* is never counted, sent to the service, presented or changed.
C8_SkipPrefixGate ==
    /\ \A i \in LogIndex :
          log[i].ev # "write" => ~HasSkipPrefix(ContextAt(orig, At(log[i])))
    /\ tree.parsable =>
          \A p \in Positions(orig) :
              HasSkipPrefix(ContextAt(orig, p)) => MessageAt(tree, p) = MessageAt(orig, p)
    /\ unfinished_count + empty_count =
          Cardinality({i \in LogIndex : log[i].ev = "count"})

C8_Witness ==
    /\ pc = "done"
    /\ \E p \in Positions(orig) :
          /\ HasSkipPrefix(ContextAt(orig, p))
          /\ MessageAt(orig, p).type = "unfinished"
    /\ \E i \in LogIndex : log[i].ev = "count"

\* one of the locations of the message is a file ending in .ui
InUiFile(message) ==
    \E k \in 1..Len(message.locations) : EndsWith(message.locations[k], UI_EXT)

\* C9: with skip-UI set, an entry one of whose locations is a .ui file is
\* never counted, sent to the service or presented, even when it has other
\* locations; without it, no entry is passed over for its locations.
C9_SkipUiGate ==
    /\ args.skip_ui =>
          \A i \in LogIndex :
              log[i].ev # "write" => ~InUiFile(MessageAt(orig, At(log[i])))
    /\ (~args.skip_ui /\ pc = "done") =>
          \A p \in Positions(orig) :
              ( /\ InUiFile(MessageAt(orig, p))
                /\ ~ContextSkipped(ContextAt(orig, p), args.skip_context_prefixes)
                /\ MessageAt(orig, p).has_translation
                /\ should_translate_element(MessageAt(orig, p), args.translate_empty) )
              => \E i \in LogIndex : log[i].ev = "count" /\ At(log[i]) = p

C9_Witness ==
    /\ args.skip_ui
    /\ pc = "done"
    /\ \E p \in Positions(orig) :
          /\ InUiFile(MessageAt(orig, p))
          /\ \E k \in 1..Len(MessageAt(orig, p).locations) :
                ~EndsWith(MessageAt(orig, p).locations[k], UI_EXT)
          /\ MessageAt(orig, p).type = "unfinished"

\* the trimmed source text of the message is "..." or the one-glyph ellipsis
PlaceholderSource(message) ==
    /\ IsText(message.source)
    /\ Strip(message.source) \in {ELLIPSIS_DOTS, ELLIPSIS_GLYPH}

\* C10: for an entry whose trimmed source is an ellipsis placeholder the
\* result the run goes on with has empty text and confidence "0", and the
\* explanation is what translate_text returned as the translation, be it a
\* fresh answer, a cached one or a failure.
C10_PlaceholderOverride ==
    \A i \in LogIndex :
        (IsCall(log[i]) /\ log[i].dir = "normal"
           /\ PlaceholderSource(MessageAt(orig, At(log[i]))))
        => /\ log[i].used = <<<<>>, log[i].result[1], <<"0">>>>
           /\ i = Len(log) =>
                 /\ translated_text = <<>>
                 /\ confidence = <<"0">>
                 /\ explanation = log[i].result[1]

C10_Witness ==
    \E i, j \in LogIndex :
        /\ i < j /\ j = Len(log)
        /\ log[i].dir = "normal" /\ log[i].failed
        /\ log[i].used = <<<<>>, None, <<"0">>>>
        /\ log[j].dir = "normal" /\ log[j].ev = "call"
        /\ PlaceholderSource(MessageAt(orig, At(log[i])))
        /\ PlaceholderSource(MessageAt(orig, At(log[j])))
        /\ translated_text = <<>>
        /\ explanation = T_NEW

\* the entries a call of the normal direction was made for
NormalCalls == {i \in LogIndex : IsCall(log[i]) /\ log[i].dir = "normal"}

\* C11: with the detection enabled, an entry whose to-English call returns
\* a confidence above zero is never changed, gets no normal-direction call
\* and no prompt and is not counted as processed; with a confidence of zero
\* the normal translation of the entry follows.
C11_DetectionDiverts ==
    /\ \A i \in LogIndex :
          (IsCall(log[i]) /\ log[i].dir = "english" /\ IsNumeric(log[i].result[3]))
          => IF Number(log[i].result[3]) > 0
             THEN /\ \A j \in LogIndex :
                        (j # i /\ log[j].ev \in {"call", "hit", "prompt", "mutate"})
                            => At(log[j]) # At(log[i])
                  /\ MessageAt(tree, At(log[i])) = MessageAt(orig, At(log[i]))
                  /\ (i = Len(log) => (pc \in {"message", "context", "done"}
                                         /\ Before(At(log[i]), <<ci, mi>>)))
             ELSE IF i = Len(log)
                  THEN pc = "translate" /\ <<ci, mi>> = At(log[i])
                  ELSE /\ log[i + 1].dir = "normal"
                       /\ At(log[i + 1]) = At(log[i])
    /\ processed_count =
          IF args.cache_only THEN Cardinality(NormalCalls)
          ELSE Cardinality({At(log[i]) : i \in Mutations})
    /\ \A i \in LogIndex :
          log[i].dir = "english" => args.translate_non_english_source

C11_Witness ==
    /\ pc = "done"
    /\ ~args.cache_only
    /\ \E i, j \in LogIndex :
          /\ log[i].dir = "english" /\ log[i].result[3] = <<"9">>
          /\ MessageAt(orig, At(log[i])).type = "unfinished"
          /\ log[j].dir = "english" /\ log[j].result[3] = <<"0">>
          /\ log[j + 1].dir = "normal"

\* the translation state of an entry: the unfinished marker, else whether
\* the text is empty
TranslationState(message) ==
    IF message.type = "unfinished" THEN "Unfinished"
    ELSE IF message.text = None \/ Strip(message.text) = <<>> THEN "Empty"
    ELSE "Finished"

\* the entry passes the gates that come before the selection
PassesGates(p) ==
    /\ ~ContextSkipped(ContextAt(orig, p), args.skip_context_prefixes)
    /\ ~UiSkipped(MessageAt(orig, p), args.skip_ui)
    /\ MessageAt(orig, p).has_translation

\* C12: should_translate_element is true exactly for an Unfinished entry and
\* for an Empty entry under translate-empty, and false for a Finished entry
\* under both values of the flag; the run counts the entries accordingly.
C12_SelectionPolicy ==
    /\ \A p \in Positions(orig) : \A flag \in BOOLEAN :
          LET m == MessageAt(orig, p)
          IN  /\ should_translate_element(m, flag) <=>
                    \/ TranslationState(m) = "Unfinished"
                    \/ (TranslationState(m) = "Empty" /\ flag)
              /\ TranslationState(m) = "Finished" => ~should_translate_element(m, flag)
    /\ pc = "done" =>
          \A p \in Positions(orig) :
              PassesGates(p) =>
                  ( (\E i \in LogIndex : log[i].ev = "count" /\ At(log[i]) = p)
                    <=> \/ TranslationState(MessageAt(orig, p)) = "Unfinished"
                        \/ /\ TranslationState(MessageAt(orig, p)) = "Empty"
                           /\ args.translate_empty )

C12_Witness ==
    /\ pc = "done"
    /\ args.translate_empty
    /\ \E p, q \in Positions(orig) :
          /\ PassesGates(p) /\ PassesGates(q)
          /\ TranslationState(MessageAt(orig, p)) = "Empty"
          /\ TranslationState(MessageAt(orig, q)) = "Finished"
          /\ \E i \in LogIndex : log[i].ev = "count" /\ At(log[i]) = p
          /\ \A i \in LogIndex : At(log[i]) # q \/ log[i].ev = "write"

\* C13: a catalog that cannot be parsed or has no target language ends the
\* process with status 1 in its first step, with no call, prompt, cache
\* insertion, mutation or write before it.
C13_FatalBeforeAnyWork ==
    /\ []( (~orig.parsable \/ orig.language = <<>>) =>
             /\ pc \in {"start", "exit1"}
             /\ log = <<>>
             /\ cache = EmptyCache
             /\ store = EmptyCache
             /\ file = orig
             /\ tree \in {NotParsed, ParseTs(orig)}
             /\ processed_count = 0
             /\ report = <<>> )
    /\ [][ (pc = "start" /\ (~orig.parsable \/ orig.language = <<>>))
             => pc' = "exit1" ]_vars

C13_Witness ==
    /\ pc = "exit1"
    /\ orig.parsable
    /\ orig.language = <<>>
    /\ \E p \in Positions(orig) : MessageAt(orig, p).type = "unfinished"
    /\ ~args.cache_only

\* C14: whatever the shape of an answered response, the run goes on after
\* it: the process is never at status 1 right after an answered call.
C14_AnyResponseAbsorbed ==
    ~( /\ pc = "exit1"
       /\ log # <<>>
       /\ IsCall(log[Len(log)])
       /\ ~log[Len(log)].failed )

\* the entries of the whole document that pass the gates and the selection
EligibleOfDocument ==
    {p \in Positions(orig) : Selected(ContextAt(orig, p), MessageAt(orig, p), args)}

\* C15: at an operator quit the report gives the number of accepted entries
\* and the number of eligible entries of the whole document.
C15_QuitReportCounts ==
    pc = "quit" =>
        report = << Cardinality({At(log[i]) : i \in Mutations}),
                    Cardinality(EligibleOfDocument) >>

\* C16: the processed count of a finished cache-only run is the number of
\* normal-direction results whose confidence is not below 10.
C16_LowConfidenceNeverProcessed ==
    (args.cache_only /\ pc = "done") =>
        processed_count =
            Cardinality({i \in NormalCalls :
                ~(IsNumeric(log[i].used[3]) /\ Number(log[i].used[3]) < LOW_CONFIDENCE)})

\* C17: a finished interactive run in which no entry was accepted leaves
\* the file as it was, byte for byte.
C17_RoundTripIsIdentity ==
    (pc \in {"done", "quit"} /\ ~args.cache_only /\ Mutations = {}) => file = orig

\* the entries the log has a mutation for
AcceptedPositions == {At(log[i]) : i \in Mutations}

\* C18: a step of an interactive run that changes the tree or the processed
\* count is an acceptance: the entry gets the candidate text (the edited text
\* after an edit), loses its unfinished marker and the processed count grows
\* by one; the processed count is the number of accepted entries, each of
\* them accepted once.
C18_AcceptedTransition ==
    /\ [][ ( /\ ~args.cache_only
             /\ pc # "start"
             /\ (tree' # tree \/ processed_count' # processed_count) )
           => LET candidate ==
                      IF pc = "prompt" THEN translated_text ELSE edited_translation
              IN  /\ pc \in {"prompt", "confirm"}
                  /\ MessageAt(tree', <<ci, mi>>).text = candidate
                  /\ MessageAt(tree', <<ci, mi>>).type = "absent"
                  /\ processed_count' = processed_count + 1 ]_vars
    /\ []( ~args.cache_only =>
             /\ processed_count = Cardinality(AcceptedPositions)
             /\ processed_count = Cardinality(Mutations) )

C18_Witness ==
    /\ pc = "done"
    /\ processed_count = 2
    /\ \E i, j \in Mutations :
          /\ i < j
          /\ MessageAt(orig, At(log[i])).type = "unfinished"
          /\ MessageAt(tree, At(log[i])) =
                 [MessageAt(orig, At(log[i])) EXCEPT !.text = T_NEW, !.type = "absent"]
          /\ MessageAt(tree, At(log[j])).text = Strip(T_EDITED)
          /\ MessageAt(tree, At(log[j])).type = "absent"

\* C19: the tree is the parsed input except for the translation text and
\* the unfinished marker of the accepted entries.
C19_OnlyAcceptedEntriesDiffer ==
    tree # NotParsed =>
        /\ tree.parsable = orig.parsable
        /\ tree.language = orig.language
        /\ Len(tree.contexts) = Len(orig.contexts)
        /\ \A c \in 1..Len(orig.contexts) :
              /\ tree.contexts[c].name = orig.contexts[c].name
              /\ Len(tree.contexts[c].messages) = Len(orig.contexts[c].messages)
        /\ \A p \in Positions(orig) :
              LET m == MessageAt(tree, p)
                  o == MessageAt(orig, p)
              IN  IF p \in AcceptedPositions
                  THEN m = [o EXCEPT !.text = m.text, !.type = m.type]
                  ELSE m = o

C19_Witness ==
    /\ pc = "done"
    /\ \E p, q \in Positions(orig) :
          /\ p \in AcceptedPositions
          /\ MessageAt(tree, p) # MessageAt(orig, p)
          /\ q \notin AcceptedPositions
          /\ \E i \in LogIndex : log[i].ev = "prompt" /\ At(log[i]) = q
          /\ MessageAt(orig, q).type = "unfinished"
          /\ MessageAt(tree, q) = MessageAt(orig, q)

\* C20: after an edit, confirmation accepts the entry with the edited text;
\* any other answer leads back to the prompt of the same entry with the tree,
\* the processed count and the candidate unchanged; the prompt is left only
\* for the next entry (accept, skip, confirmed edit), the confirmation of an
\* edit, or the quit.
C20_EditConfirmOrDiscard ==
    /\ [][ pc = "confirm" =>
             \/ /\ pc' = "message"
                /\ <<ci', mi'>> = <<ci, mi + 1>>
                /\ MessageAt(tree', <<ci, mi>>).text = edited_translation
                /\ MessageAt(tree', <<ci, mi>>).type = "absent"
                /\ processed_count' = processed_count + 1
             \/ /\ pc' = "prompt"
                /\ UNCHANGED <<tree, processed_count, translated_text, ci, mi>> ]_vars
    /\ [][ (pc = "prompt" /\ pc' # "prompt") =>
             \/ /\ pc' = "confirm"
                /\ UNCHANGED <<tree, processed_count, translated_text, ci, mi>>
             \/ /\ pc' = "message"
                /\ <<ci', mi'>> = <<ci, mi + 1>>
             \/ pc' = "quit" ]_vars

C20_Witness ==
    /\ pc = "prompt"
    /\ <<ci, mi>> = <<1, 1>>
    /\ edited_translation = Strip(T_EDITED)
    /\ translated_text = T_NEW
    /\ MessageAt(tree, <<ci, mi>>) = MessageAt(orig, <<ci, mi>>)
    /\ processed_count = 0

\* C21: after edit_translation has returned no temporary file is left,
\* whether the editor ran, could not be started, ended with an error status
\* or left a file that cannot be read back; when the editor failed the text
\* returned is the text that was handed in, unchanged.
C21_TempFileReleased ==
    pc = "edited" =>
        /\ temp_files = {}
        /\ log[1].editor.run # "ok" => edited_translation = translated_text
        /\ (log[1].editor.run = "ok" /\ log[1].editor.readable) =>
               edited_translation =
                   Strip(IF log[1].editor.content = None THEN translated_text
                         ELSE log[1].editor.content)

C21_Witness ==
    /\ pc = "edited"
    /\ log[1].editor.run = "nonzero"
    /\ translated_text = <<" ", "T">>
    /\ edited_translation = <<" ", "T">>
    /\ temp_files = {}

\* an answered call of the service: the cache got a new entry
IsAnswered(e) == e.ev = "call" /\ ~e.failed

\* C22: after an answered call for a new key the cache holds the result and,
\* when no write of the pickle file has failed, the file holds the whole
\* cache; a failed write leaves the process running with the result
\* returned, and every later call with that key is answered by the cache.
C22_InsertIsPersisted ==
    /\ (\A i \in LogIndex : log[i].write # "failed") => store = cache
    /\ pc = "calls"
    /\ \A i \in LogIndex :
          IsAnswered(log[i]) =>
              /\ log[i].write \in {"ok", "failed"}
              /\ log[i].key \in DOMAIN cache
              /\ cache[log[i].key] = log[i].result
              /\ \A j \in LogIndex :
                    (i < j /\ log[j].key = log[i].key)
                        => log[j].ev = "hit" /\ log[j].result = log[i].result
    /\ (log # <<>> /\ log[Len(log)].write = "ok") => store = cache
    /\ log # <<>> =>
          <<translated_text, explanation, confidence>> = log[Len(log)].result

C22_Witness ==
    /\ Len(log) = 3
    /\ IsAnswered(log[1]) /\ log[1].write = "failed"
    /\ log[2].ev = "hit" /\ log[2].key = log[1].key
    /\ IsAnswered(log[3]) /\ log[3].write = "ok"
    /\ store = cache
    /\ Cardinality(DOMAIN store) >= 2

\* C23: a step never removes a key of the cache and never changes the
\* result stored under a key.
C23_CacheOnlyGrows ==
    [][ \A k \in DOMAIN cache : k \in DOMAIN cache' /\ cache'[k] = cache[k] ]_vars

C23_Witness ==
    /\ Cardinality(DOMAIN cache) = 3
    /\ \E i \in LogIndex : log[i].ev = "hit"
    /\ \E k \in DOMAIN cache : cache[k] = <<<<"O">>, <<>>, <<"9", "0">>>>

\* C25: a failed call returns (None, None, None), leaves the cache and the
\* pickle file as they were and the process running; the next call with the
\* same key asks the service again.
C25_FailureLeavesCacheUnchanged ==
    /\ [][ (log' # log /\ log'[Len(log')].failed) =>
             /\ cache' = cache
             /\ store' = store
             /\ <<translated_text', explanation', confidence'>> = NoneResult
             /\ log'[Len(log')].result = NoneResult
             /\ log'[Len(log')].write = "none"
             /\ pc' = pc ]_vars
    /\ []( \A i, j \in LogIndex :
             ( /\ log[i].failed
               /\ i < j
               /\ log[j].key = log[i].key
               /\ \A m \in (i + 1)..(j - 1) :
                     ~(IsAnswered(log[m]) /\ log[m].key = log[i].key) )
                 => log[j].ev = "call" )

C25_Witness ==
    /\ Len(log) = 2
    /\ log[1].failed
    /\ log[2].key = log[1].key
    /\ IsAnswered(log[2])
    /\ log[1].key \in DOMAIN cache

\* C24: the events of the run are in document order: an event never belongs
\* to an entry before the entry of the event that precedes it, no event
\* belongs to an entry after the current one, and no entry is selected twice.
C24_DocumentOrder ==
    /\ \A i \in LogIndex :
          /\ i < Len(log) => ~Before(At(log[i + 1]), At(log[i]))
          /\ ~Before(<<ci, mi>>, At(log[i]))
    /\ \A i, j \in LogIndex :
          (i < j /\ log[i].ev = "count" /\ log[j].ev = "count")
              => Before(At(log[i]), At(log[j]))
    /\ \A i \in LogIndex :
          log[i].ev \in {"call", "hit", "prompt", "mutate"} =>
              \E j \in 1..(i - 1) : log[j].ev = "count" /\ At(log[j]) = At(log[i])

C24_Witness ==
    /\ pc = "done"
    /\ \E i, j, k \in LogIndex :
          /\ i < j /\ j < k
          /\ log[i].ev = "mutate" /\ At(log[i]) = <<1, 1>>
          /\ log[j].ev = "call" /\ At(log[j]) = <<1, 2>>
          /\ log[k].ev = "mutate" /\ At(log[k]) = <<1, 2>>

\* C26: an entry that is not unfinished in the input is not unfinished in
\* the tree or in the written file, and no step gives the marker to an
\* entry of the tree that does not have it.
C26_NeverSetsUnfinished ==
    /\ []( \A p \in Positions(orig) :
             MessageAt(orig, p).type # "unfinished" =>
                 /\ tree # NotParsed => MessageAt(tree, p).type # "unfinished"
                 /\ MessageAt(file, p).type # "unfinished" )
    /\ [][ tree # NotParsed =>
             \A p \in Positions(tree) :
                 MessageAt(tree, p).type # "unfinished"
                     => MessageAt(tree', p).type # "unfinished" ]_vars

C26_Witness ==
    /\ pc = "done"
    /\ \E q \in Positions(orig) :
          /\ q \in AcceptedPositions
          /\ MessageAt(orig, q).type = "absent"
          /\ TranslationState(MessageAt(orig, q)) = "Empty"
          /\ MessageAt(file, q).type = "absent"
          /\ MessageAt(file, q).text = Strip(T_EDITED)

\* the candidate is empty and the explanation begins with the refusal phrase
RefusalShown ==
    /\ pc \in {"prompt", "confirm"}
    /\ translated_text = <<>>
    /\ explanation # None
    /\ Len(explanation) >= Len(REFUSAL)
    /\ SubSeq(explanation, 1, Len(REFUSAL)) = REFUSAL

\* C27: at the prompt of a refusal "yes" is no valid choice and typing it
\* asks again; the entry is accepted only by the confirmation of an edit,
\* with the edited text; a step that stays at the prompt changes neither the
\* document nor the counters nor the cache.
C27_RefusalHasNoDirectAccept ==
    /\ []( (RefusalShown /\ pc = "prompt") =>
             /\ "yes" \notin ValidChoices(translated_text, explanation)
             /\ ~ENABLED Accept
             /\ ENABLED Invalid
             /\ ENABLED Edit )
    /\ [][ (RefusalShown /\ (tree' # tree \/ processed_count' # processed_count)) =>
             /\ pc = "confirm"
             /\ MessageAt(tree', <<ci, mi>>).text = edited_translation
             /\ processed_count' = processed_count + 1 ]_vars
    /\ [][ (pc = "prompt" /\ pc' = "prompt") =>
             UNCHANGED <<tree, file, cache, store, ci, mi, unfinished_count,
                         empty_count, processed_count, non_english_source_count>> ]_vars

C27_Witness ==
    /\ pc = "done"
    /\ processed_count = 1
    /\ \E i, j \in LogIndex :
          /\ i < j
          /\ log[i].ev = "call"
          /\ log[i].used[1] = <<>>
          /\ log[i].used[2] = REFUSAL
          /\ log[j].ev = "mutate"
          /\ At(log[j]) = At(log[i])
          /\ log[j].used = Strip(T_EDITED)

====
